---- MODULE Spec2Model ----
(***************************************************************************)
(* A model of the Rag-Pipeline repository:                                 *)
(*   - app/embedding.py    the embedding-store script: load the chunk      *)
(*                         blob, validate, embed, pickle the record        *)
(*   - app/preprocessing.py  preprocess_and_chunk and filter_documents     *)
(* A text is the sequence of its characters' Unicode code points (97 is a, *)
(* 32 the space, 10 the line feed); a file is a sequence of tokens, one    *)
(* token per pickled value, closed by the STOP opcode.                     *)
(***************************************************************************)
EXTENDS Integers, Sequences, FiniteSets, TLC

VARIABLES
    chunksFile,      \* the blob at CHUNKS_PATH: [exists, data]
    outFile,         \* the blob at EMBEDDINGS_PATH: [exists, data]
    outFile0,        \* the blob at EMBEDDINGS_PATH before any run (history)
    dirExists,       \* whether EMBEDDINGS_DIR exists
    pc,              \* per run: the statement of embedding.py it is at
    outcome,         \* per run: how it ended ("running" while it has not)
    chunks,          \* per run: the unpickled chunk list
    docs,            \* per run: embedding.py's docs
    metadatas,       \* per run: embedding.py's metadatas
    doc_embeddings,  \* per run: what embed_documents returned
    embedding_data,  \* per run: the record to pickle
    off,             \* per run: the write offset of its open output file
    embedCalls,      \* per run: number of embed_documents calls (history)
    embedArg,        \* per run: the argument of the last call (history)
    modified,        \* per run: number of changes it made to outFile (history)
    decodeTried,     \* per run: whether pickle.load was entered (history)
    lastWriter,      \* the run that opened or wrote outFile last, 0 for none (history)
    interleaved      \* whether a run touched outFile between two accesses of
                     \* another run (history)

VARIABLES
    in_docs,         \* the docs argument of the preprocessing.py function called
    in_docs0,        \* that argument as it was at the call (history)
    chunk_size,      \* preprocess_and_chunk's chunk_size
    chunk_overlap,   \* preprocess_and_chunk's chunk_overlap
    separators,      \* preprocess_and_chunk's separators
    min_length,      \* filter_documents' min_length
    chunked_docs,    \* what preprocess_and_chunk returned
    filtered,        \* what filter_documents returned
    step             \* "idle", "called" or the name of what has returned

preVars == <<in_docs, in_docs0, chunk_size, chunk_overlap, separators, min_length,
             chunked_docs, filtered, step>>

pipeVars == <<chunksFile, outFile, outFile0, dirExists, pc, outcome, chunks, docs,
              metadatas, doc_embeddings, embedding_data, off, embedCalls,
              embedArg, modified, decodeTried, lastWriter, interleaved>>

vars == <<pipeVars, preVars>>

----------------------------------------------------------------------------
(* Bounds *)

MaxFileLen == 3
BlockSize == 2
MaxConcChunks == 2
MaxDocs == 2
FilterMaxLen == 2
MaxMinLength == 3
ChunkMaxLen == 5
MaxChunkSize == 3

\* the defaults of preprocessing.py's parameters
DefaultChunkSize == 1000
DefaultChunkOverlap == 200
DefaultMinLength == 50

Procs == {1, 2}
Texts == {"t1", "t2"}
Metas == {"m1", "m2"}
Vectors == {"v1", "v2"}

RECURSIVE SeqsUpTo(_, _)
SeqsUpTo(S, n) ==
    IF n = 0 THEN {<<>>}
    ELSE LET shorter == SeqsUpTo(S, n - 1)
         IN  shorter \cup {Append(s, x) : s \in {t \in shorter : Len(t) = n - 1}, x \in S}

Min(a, b) == IF a < b THEN a ELSE b
Max(a, b) == IF a > b THEN a ELSE b

----------------------------------------------------------------------------
(* pickle: a stream of value tokens closed by STOP *)

STOP == <<"stop">>
BAD == <<"bad">>
NUL == <<"nul">>
Val(x) == <<"val", x>>
Key(k) == <<"key", k>>

Chunk(t, m) == [page_content |-> t, metadata |-> m]
ChunkSet == {Chunk(t, m) : t \in Texts, m \in Metas}

\* pickle.dump of a list of chunks
DumpList(xs) == [i \in 1..Len(xs) |-> Val(xs[i])] \o <<STOP>>

\* index of the first token of data equal to tok, 0 when there is none
FirstIndex(data, tok) ==
    LET hits == {i \in 1..Len(data) : data[i] = tok}
    IN  IF hits = {} THEN 0 ELSE CHOOSE i \in hits : \A j \in hits : i <= j

\* pickle.load: the value up to the first STOP; EOFError when the stream ends
\* before STOP, UnpicklingError on a token that is no opcode.
Unpickle(data) ==
    LET s == FirstIndex(data, STOP)
        b == FirstIndex(data, BAD)
    IN  IF b # 0 /\ (s = 0 \/ b < s) THEN [kind |-> "UnpicklingError", value |-> <<>>]
        ELSE IF s = 0 THEN [kind |-> "EOFError", value |-> <<>>]
        ELSE [kind |-> "ok", value |-> [i \in 1..(s - 1) |-> data[i][2]]]

\* pickle.dump of the dict {"docs": .., "metadatas": .., "embeddings": ..}
Section(k, xs) == <<Key(k)>> \o [i \in 1..Len(xs) |-> Val(xs[i])]
DumpRecord(rec) ==
    Section("docs", rec.docs) \o Section("metadatas", rec.metadatas)
        \o Section("embeddings", rec.embeddings) \o <<STOP>>

----------------------------------------------------------------------------
(* files *)

Absent == [exists |-> FALSE, data |-> <<>>]
File(data) == [exists |-> TRUE, data |-> data]

\* os.path.getsize
GetSize(f) == Len(f.data)

\* open(path, "r+b") or os.open without O_TRUNC: the old content stays
OpenTruncate_keep(f) == File(f.data)

\* open(path, "wb"): the file is created or truncated to length 0
OpenTruncate(f) == File(<<>>)

\* write(2) of block at offset o: a gap left by another run's truncation reads
\* as zero bytes
WriteAt(f, o, block) ==
    LET old == f.data
        n == Max(Len(old), o + Len(block))
    IN  File([i \in 1..n |->
                IF i > o /\ i <= o + Len(block) THEN block[i - o]
                ELSE IF i <= Len(old) THEN old[i]
                ELSE NUL])

InputTokens == {Val(c) : c \in ChunkSet} \cup {STOP, BAD}
InputFiles == {Absent} \cup {File(d) : d \in SeqsUpTo(InputTokens, MaxFileLen)}

EmptyRecord == [docs |-> <<>>, metadatas |-> <<>>, embeddings |-> <<>>]
OldRecord == [docs |-> <<"t1">>, metadatas |-> <<"m1">>, embeddings |-> <<"v2">>]
OutputFiles == {Absent, File(DumpRecord(OldRecord))}

----------------------------------------------------------------------------
(* embedding.py, one run p *)

Goto(p, l) == pc' = [pc EXCEPT ![p] = l]
Exit(p, how) ==
    /\ pc' = [pc EXCEPT ![p] = "done"]
    /\ outcome' = [outcome EXCEPT ![p] = how]

\* line 13: HuggingFaceEmbeddings(...) returns or raises
LoadModel(p) ==
    /\ pc[p] = "load_model"
    /\ UNCHANGED preVars
    /\ \/ Goto(p, "check_exists") /\ UNCHANGED outcome
       \/ Exit(p, "model_error")
    /\ UNCHANGED <<chunksFile, outFile, outFile0, dirExists, chunks, docs, metadatas,
                   doc_embeddings, embedding_data, off, embedCalls, embedArg,
                   modified, decodeTried, lastWriter, interleaved>>

\* lines 16-18 with the test of line 16 left out
CheckExists_unchecked(p) ==
    /\ pc[p] = "check_exists"
    /\ UNCHANGED preVars
    /\ Goto(p, "check_size") /\ UNCHANGED outcome
    /\ UNCHANGED <<chunksFile, outFile, outFile0, dirExists, chunks, docs, metadatas,
                   doc_embeddings, embedding_data, off, embedCalls, embedArg,
                   modified, decodeTried, lastWriter, interleaved>>

\* lines 16-18
CheckExists(p) ==
    /\ pc[p] = "check_exists"
    /\ UNCHANGED preVars
    /\ IF ~chunksFile.exists
          THEN Exit(p, "missing")
          ELSE Goto(p, "check_size") /\ UNCHANGED outcome
    /\ UNCHANGED <<chunksFile, outFile, outFile0, dirExists, chunks, docs, metadatas,
                   doc_embeddings, embedding_data, off, embedCalls, embedArg,
                   modified, decodeTried, lastWriter, interleaved>>

\* lines 20-22
CheckSize(p) ==
    /\ pc[p] = "check_size"
    /\ UNCHANGED preVars
    /\ IF GetSize(chunksFile) = 0
          THEN Exit(p, "empty")
          ELSE Goto(p, "load") /\ UNCHANGED outcome
    /\ UNCHANGED <<chunksFile, outFile, outFile0, dirExists, chunks, docs, metadatas,
                   doc_embeddings, embedding_data, off, embedCalls, embedArg,
                   modified, decodeTried, lastWriter, interleaved>>

\* the except clause of lines 29-31: the exception kinds it catches
Caught == {"EOFError"}

\* lines 26-31
LoadChunks(p) ==
    /\ pc[p] = "load"
    /\ UNCHANGED preVars
    /\ decodeTried' = [decodeTried EXCEPT ![p] = TRUE]
    /\ LET r == Unpickle(chunksFile.data)
       IN  IF r.kind = "ok"
              THEN /\ chunks' = [chunks EXCEPT ![p] = r.value]
                   /\ Goto(p, "prepare")
                   /\ UNCHANGED outcome
           ELSE IF r.kind \in Caught
              THEN Exit(p, "corrupt") /\ UNCHANGED chunks
           ELSE Exit(p, r.kind) /\ UNCHANGED chunks
    /\ UNCHANGED <<chunksFile, outFile, outFile0, dirExists, docs, metadatas,
                   doc_embeddings, embedding_data, off, embedCalls, embedArg,
                   modified, lastWriter, interleaved>>

\* lines 34-35
PageContents(cs) == [i \in 1..Len(cs) |-> cs[i].page_content]

\* line 35 taking every metadata from the last chunk
MetadataOf_last(cs) == [i \in 1..Len(cs) |-> cs[Len(cs)].metadata]

MetadataOf(cs) == [i \in 1..Len(cs) |-> cs[i].metadata]

\* lines 34-36 without the test of lines 38-40
PrepareDocs_unchecked(p) ==
    /\ pc[p] = "prepare"
    /\ UNCHANGED preVars
    /\ docs' = [docs EXCEPT ![p] = PageContents(chunks[p])]
    /\ metadatas' = [metadatas EXCEPT ![p] = MetadataOf(chunks[p])]
    /\ Goto(p, "embed") /\ UNCHANGED outcome
    /\ UNCHANGED <<chunksFile, outFile, outFile0, dirExists, chunks,
                   doc_embeddings, embedding_data, off, embedCalls, embedArg,
                   modified, decodeTried, lastWriter, interleaved>>

\* lines 34-40
PrepareDocs(p) ==
    /\ pc[p] = "prepare"
    /\ UNCHANGED preVars
    /\ docs' = [docs EXCEPT ![p] = PageContents(chunks[p])]
    /\ metadatas' = [metadatas EXCEPT ![p] = MetadataOf(chunks[p])]
    /\ IF docs'[p] = <<>>
          THEN Exit(p, "no_documents")
          ELSE Goto(p, "embed") /\ UNCHANGED outcome
    /\ UNCHANGED <<chunksFile, outFile, outFile0, dirExists, chunks,
                   doc_embeddings, embedding_data, off, embedCalls, embedArg,
                   modified, decodeTried, lastWriter, interleaved>>

\* what embed_documents may return for n texts: any list of vectors
Responses(n) == SeqsUpTo(Vectors, n + 1)

\* lines 44-45: one call; it raises, or returns a list whose first element is
\* then read (IndexError on an empty list)
GenerateEmbeddings(p) ==
    /\ pc[p] = "embed"
    /\ UNCHANGED preVars
    /\ embedCalls' = [embedCalls EXCEPT ![p] = @ + 1]
    /\ embedArg' = [embedArg EXCEPT ![p] = docs[p]]
    /\ \/ Exit(p, "embed_error") /\ UNCHANGED doc_embeddings
       \/ \E r \in Responses(Len(docs[p])) :
            /\ doc_embeddings' = [doc_embeddings EXCEPT ![p] = r]
            /\ IF r = <<>>
                  THEN Exit(p, "IndexError")
                  ELSE Goto(p, "build") /\ UNCHANGED outcome
    /\ UNCHANGED <<chunksFile, outFile, outFile0, dirExists, chunks, docs, metadatas,
                   embedding_data, off, modified, decodeTried, lastWriter, interleaved>>

\* lines 48-52
BuildRecord(p) ==
    /\ pc[p] = "build"
    /\ UNCHANGED preVars
    /\ embedding_data' = [embedding_data EXCEPT ![p] =
            [docs |-> docs[p], metadatas |-> metadatas[p],
             embeddings |-> doc_embeddings[p]]]
    /\ Goto(p, "makedirs")
    /\ UNCHANGED <<chunksFile, outFile, outFile0, dirExists, outcome, chunks, docs,
                   metadatas, doc_embeddings, off, embedCalls, embedArg,
                   modified, decodeTried, lastWriter, interleaved>>

\* line 54
MakeDirs(p) ==
    /\ pc[p] = "makedirs"
    /\ UNCHANGED preVars
    /\ dirExists' = TRUE
    /\ Goto(p, "open")
    /\ UNCHANGED <<chunksFile, outFile, outFile0, outcome, chunks, docs,
                   metadatas, doc_embeddings, embedding_data, off, embedCalls,
                   embedArg, modified, decodeTried, lastWriter, interleaved>>

\* history of the accesses to outFile
Touch(p) ==
    /\ lastWriter' = p
    /\ interleaved' = (interleaved \/ (lastWriter # p /\ modified[p] > 0))

\* line 55: open(EMBEDDINGS_PATH, "wb")
OpenOutput(p) ==
    /\ pc[p] = "open"
    /\ UNCHANGED preVars
    /\ outFile' = OpenTruncate(outFile)
    /\ off' = [off EXCEPT ![p] = 0]
    /\ modified' = [modified EXCEPT ![p] = @ + 1]
    /\ Touch(p)
    /\ Goto(p, "dump")
    /\ UNCHANGED <<chunksFile, outFile0, dirExists, outcome, chunks, docs,
                   metadatas, doc_embeddings, embedding_data, embedCalls,
                   embedArg, decodeTried>>

\* the next block of the pickle stream that run p has still to write
NextBlock(p) ==
    LET stream == DumpRecord(embedding_data[p])
    IN  SubSeq(stream, off[p] + 1, Min(Len(stream), off[p] + BlockSize))

\* line 56: pickle.dump writes the stream through the file, block by block
WriteBlock(p) ==
    /\ pc[p] = "dump"
    /\ UNCHANGED preVars
    /\ off[p] < Len(DumpRecord(embedding_data[p]))
    /\ outFile' = WriteAt(outFile, off[p], NextBlock(p))
    /\ off' = [off EXCEPT ![p] = @ + Len(NextBlock(p))]
    /\ modified' = [modified EXCEPT ![p] = @ + 1]
    /\ Touch(p)
    /\ UNCHANGED <<chunksFile, outFile0, dirExists, pc, outcome, chunks, docs,
                   metadatas, doc_embeddings, embedding_data, embedCalls,
                   embedArg, decodeTried>>

\* lines 55-58: the with block ends, the file is closed
CloseOutput(p) ==
    /\ pc[p] = "dump"
    /\ UNCHANGED preVars
    /\ off[p] = Len(DumpRecord(embedding_data[p]))
    /\ Exit(p, "saved")
    /\ UNCHANGED <<chunksFile, outFile, outFile0, dirExists, chunks, docs, metadatas,
                   doc_embeddings, embedding_data, off, embedCalls, embedArg,
                   modified, decodeTried, lastWriter, interleaved>>

----------------------------------------------------------------------------
(* one run of embedding.py *)

\* no function of preprocessing.py is called
PreIdle ==
    /\ in_docs = <<>>
    /\ in_docs0 = <<>>
    /\ chunk_size = DefaultChunkSize
    /\ chunk_overlap = DefaultChunkOverlap
    /\ separators = <<>>
    /\ min_length = DefaultMinLength
    /\ chunked_docs = <<>>
    /\ filtered = <<>>
    /\ step = "idle"

InitLocals ==
    /\ outcome = [p \in Procs |-> "running"]
    /\ chunks = [p \in Procs |-> <<>>]
    /\ docs = [p \in Procs |-> <<>>]
    /\ metadatas = [p \in Procs |-> <<>>]
    /\ doc_embeddings = [p \in Procs |-> <<>>]
    /\ off = [p \in Procs |-> 0]
    /\ embedCalls = [p \in Procs |-> 0]
    /\ embedArg = [p \in Procs |-> <<>>]
    /\ modified = [p \in Procs |-> 0]
    /\ decodeTried = [p \in Procs |-> FALSE]
    /\ lastWriter = 0
    /\ interleaved = FALSE
    /\ PreIdle

Init ==
    /\ chunksFile \in InputFiles
    /\ outFile \in OutputFiles
    /\ outFile0 = outFile
    /\ dirExists = outFile.exists
    /\ pc = [p \in Procs |-> IF p = 1 THEN "load_model" ELSE "idle"]
    /\ embedding_data = [p \in Procs |-> EmptyRecord]
    /\ InitLocals

Next ==
    \/ LoadModel(1)
    \/ CheckExists(1)
    \/ CheckSize(1)
    \/ LoadChunks(1)
    \/ PrepareDocs(1)
    \/ GenerateEmbeddings(1)
    \/ BuildRecord(1)
    \/ MakeDirs(1)
    \/ OpenOutput(1)
    \/ WriteBlock(1)
    \/ CloseOutput(1)

Spec == Init /\ [][Next]_vars

----------------------------------------------------------------------------
(* two runs of embedding.py that have both passed validation and race on
   lines 54-56 *)

\* run p's chunks carry its own text, metadata and vector, so that the tokens
\* of the two pickle streams differ
TextOf(p) == IF p = 1 THEN "t1" ELSE "t2"
MetaOf(p) == IF p = 1 THEN "m1" ELSE "m2"
VectorOf(p) == IF p = 1 THEN "v1" ELSE "v2"

\* the state of a run at line 54 whose chunk blob held n[p] chunks
InitConc ==
    /\ \E n \in [Procs -> 1..MaxConcChunks] :
         /\ chunks = [p \in Procs |-> [i \in 1..n[p] |-> Chunk(TextOf(p), MetaOf(p))]]
         /\ docs = [p \in Procs |-> [i \in 1..n[p] |-> TextOf(p)]]
         /\ metadatas = [p \in Procs |-> [i \in 1..n[p] |-> MetaOf(p)]]
         /\ doc_embeddings = [p \in Procs |-> [i \in 1..n[p] |-> VectorOf(p)]]
    /\ embedding_data = [p \in Procs |->
            [docs |-> docs[p], metadatas |-> metadatas[p],
             embeddings |-> doc_embeddings[p]]]
    /\ chunksFile = File(DumpList(chunks[1]))
    /\ outFile \in OutputFiles
    /\ outFile0 = outFile
    /\ dirExists = outFile.exists
    /\ pc = [p \in Procs |-> "makedirs"]
    /\ outcome = [p \in Procs |-> "running"]
    /\ off = [p \in Procs |-> 0]
    /\ embedCalls = [p \in Procs |-> 1]
    /\ embedArg = docs
    /\ modified = [p \in Procs |-> 0]
    /\ decodeTried = [p \in Procs |-> TRUE]
    /\ lastWriter = 0
    /\ interleaved = FALSE
    /\ PreIdle

NextConc ==
    \E p \in Procs :
        \/ MakeDirs(p)
        \/ OpenOutput(p)
        \/ WriteBlock(p)
        \/ CloseOutput(p)

SpecConc == InitConc /\ [][NextConc]_vars

----------------------------------------------------------------------------
(* preprocessing.py: a text is the sequence of its code points *)

\* str.strip(): the whitespace characters it removes at both ends
\* (those for which str.isspace is true): U+0009..U+000D, U+001C..U+001F,
\* U+0020, U+0085, U+00A0, U+1680, U+2000..U+200A, U+2028, U+2029, U+202F,
\* U+205F, U+3000
IsSpace(c) ==
    c \in (9..13) \cup (28..31) \cup {32, 133, 160, 5760} \cup (8192..8202)
              \cup {8232, 8233, 8239, 8287, 12288}

RECURSIVE LStrip(_)
LStrip(t) == IF t # <<>> /\ IsSpace(Head(t)) THEN LStrip(Tail(t)) ELSE t

RECURSIVE RStrip(_)
RStrip(t) ==
    IF t # <<>> /\ IsSpace(t[Len(t)]) THEN RStrip(SubSeq(t, 1, Len(t) - 1)) ELSE t

Strip(t) == RStrip(LStrip(t))

Document(t, m) == [page_content |-> t, metadata |-> m]

\* line 55 with <= for <
TooShort_inclusive(d, k) == Len(Strip(d.page_content)) <= k

\* line 55: the test that drops a document
TooShort(d, k) == Len(Strip(d.page_content)) < k

\* lines 53-58: filter_documents
RECURSIVE filter_documents(_, _)
filter_documents(ds, k) ==
    IF ds = <<>> THEN <<>>
    ELSE IF TooShort(Head(ds), k)
         THEN filter_documents(Tail(ds), k)
         ELSE <<Head(ds)>> \o filter_documents(Tail(ds), k)

----------------------------------------------------------------------------
(* RecursiveCharacterTextSplitter as preprocess_and_chunk constructs it
   (lines 34-38): keep_separator, strip_whitespace and len as length
   function are the constructor's defaults *)

\* the separators of line 33
\* ["\n\n", "\n", " ", ""]
DefaultSeparators == << <<10, 10>>, <<10>>, <<32>>, <<>> >>

\* re.search(re.escape(sep), text): the first index where sep occurs, 0 for none
Find(text, sep) ==
    LET hits == {i \in 1..(Len(text) - Len(sep) + 1) :
                    SubSeq(text, i, i + Len(sep) - 1) = sep}
    IN  IF hits = {} THEN 0 ELSE CHOOSE i \in hits : \A j \in hits : i <= j

\* re.split(sep, text) for a non-empty literal sep: the pieces between the
\* occurrences of sep, found left to right without overlap
RECURSIVE ReSplit(_, _)
ReSplit(text, sep) ==
    LET i == Find(text, sep)
    IN  IF i = 0 THEN <<text>>
        ELSE <<SubSeq(text, 1, i - 1)>>
                 \o ReSplit(SubSeq(text, i + Len(sep), Len(text)), sep)

\* _split_text_with_regex with keep_separator = True: every piece but the
\* first keeps the separator in front of it; "" splits into characters; empty
\* pieces are dropped
SplitTextWithRegex(text, sep) ==
    LET pieces == ReSplit(text, sep)
        splits == IF sep = <<>>
                     THEN [i \in 1..Len(text) |-> <<text[i]>>]
                     ELSE [i \in 1..Len(pieces) |->
                              IF i = 1 THEN pieces[1] ELSE sep \o pieces[i]]
    IN  SelectSeq(splits, LAMBDA x : x # <<>>)

\* "".join(docs)
RECURSIVE Join(_)
Join(ps) == IF ps = <<>> THEN <<>> ELSE Head(ps) \o Join(Tail(ps))

\* _join_docs: the joined pieces, stripped; nothing when that is empty
JoinDocs(current) ==
    LET t == Strip(Join(current))
    IN  IF t = <<>> THEN <<>> ELSE <<t>>

\* the separator _merge_splits joins with when keep_separator is True
MergeSeparator == <<>>
SepLen(current) == IF Len(current) > 0 THEN Len(MergeSeparator) ELSE 0

\* the while loop of _merge_splits leaving one piece less than it should
RECURSIVE PopOverlap_short(_, _, _, _, _)
PopOverlap_short(current, total, len, size, overlap) ==
    IF total >= overlap /\ total > 0
    THEN PopOverlap_short(Tail(current), total - Len(Head(current)), len, size, overlap)
    ELSE [current |-> current, total |-> total]

\* the while loop of _merge_splits: pieces are dropped from the front of
\* current_doc until what is left fits the overlap and leaves room for the
\* next piece
RECURSIVE PopOverlap(_, _, _, _, _)
PopOverlap(current, total, len, size, overlap) ==
    IF \/ total > overlap
       \/ (total + len + SepLen(current) > size /\ total > 0)
    THEN PopOverlap(Tail(current),
                    total - (Len(Head(current))
                             + (IF Len(current) > 1 THEN Len(MergeSeparator) ELSE 0)),
                    len, size, overlap)
    ELSE [current |-> current, total |-> total]

\* the for loop of _merge_splits from piece k on
RECURSIVE MergeLoop(_, _, _, _, _, _, _)
MergeLoop(splits, k, out, current, total, size, overlap) ==
    IF k > Len(splits) THEN out \o JoinDocs(current)
    ELSE LET d == splits[k]
             over == total + Len(d) + SepLen(current) > size
             flush == over /\ Len(current) > 0
             kept == IF flush THEN PopOverlap(current, total, Len(d), size, overlap)
                     ELSE [current |-> current, total |-> total]
             current2 == Append(kept.current, d)
         IN  MergeLoop(splits, k + 1,
                       IF flush THEN out \o JoinDocs(current) ELSE out,
                       current2,
                       kept.total + Len(d)
                           + (IF Len(current2) > 1 THEN Len(MergeSeparator) ELSE 0),
                       size, overlap)

\* _merge_splits
MergeSplits(splits, size, overlap) == MergeLoop(splits, 1, <<>>, <<>>, 0, size, overlap)

Merged(good, size, overlap) ==
    IF good # <<>> THEN MergeSplits(good, size, overlap) ELSE <<>>

\* _split_text: the first separator that occurs in text (or "") splits it;
\* pieces shorter than chunk_size are merged, a longer piece is split again
\* with the seps that follow, or kept whole when there are none
RECURSIVE SplitText(_, _, _, _)
RECURSIVE SplitLoop(_, _, _, _, _, _, _)
SplitLoop(splits, k, good, final, rest, size, overlap) ==
    IF k > Len(splits) THEN final \o Merged(good, size, overlap)
    ELSE LET s == splits[k]
         IN  IF Len(s) < size
                THEN SplitLoop(splits, k + 1, Append(good, s), final, rest, size, overlap)
                ELSE SplitLoop(splits, k + 1, <<>>,
                               final \o Merged(good, size, overlap)
                                   \o (IF rest = <<>> THEN <<s>>
                                       ELSE SplitText(s, rest, size, overlap)),
                               rest, size, overlap)

SplitText(text, seps, size, overlap) ==
    LET hits == {i \in 1..Len(seps) :
                    seps[i] = <<>> \/ Find(text, seps[i]) # 0}
        i == IF hits = {} THEN 0 ELSE CHOOSE x \in hits : \A y \in hits : x <= y
        separator == IF i = 0 THEN seps[Len(seps)] ELSE seps[i]
        rest == IF i = 0 \/ separator = <<>> THEN <<>>
                ELSE SubSeq(seps, i + 1, Len(seps))
    IN  SplitLoop(SplitTextWithRegex(text, separator), 1, <<>>, <<>>, rest, size, overlap)

\* lines 44-46 without metadata=doc.metadata: Document's default, {}
ChunksOfDoc_nometadata(doc, seps, size, overlap) ==
    LET splits == SplitText(doc.page_content, seps, size, overlap)
    IN  [i \in 1..Len(splits) |-> Document(splits[i], "{}")]

\* lines 42-46: the chunks of one document
ChunksOfDoc(doc, seps, size, overlap) ==
    LET splits == SplitText(doc.page_content, seps, size, overlap)
    IN  [i \in 1..Len(splits) |-> Document(splits[i], doc.metadata)]

\* lines 39-47: preprocess_and_chunk
RECURSIVE ChunkDocs(_, _, _, _, _)
ChunkDocs(ds, k, seps, size, overlap) ==
    IF k > Len(ds) THEN <<>>
    ELSE ChunksOfDoc(ds[k], seps, size, overlap)
             \o ChunkDocs(ds, k + 1, seps, size, overlap)

preprocess_and_chunk(ds, size, overlap, seps) ==
    ChunkDocs(ds, 1, seps, size, overlap)

----------------------------------------------------------------------------
(* calls of preprocessing.py's functions *)

\* embedding.py is not running
PipeIdle ==
    /\ chunksFile = Absent
    /\ outFile = Absent
    /\ outFile0 = Absent
    /\ dirExists = FALSE
    /\ pc = [p \in Procs |-> "idle"]
    /\ embedding_data = [p \in Procs |-> EmptyRecord]
    /\ outcome = [p \in Procs |-> "running"]
    /\ chunks = [p \in Procs |-> <<>>]
    /\ docs = [p \in Procs |-> <<>>]
    /\ metadatas = [p \in Procs |-> <<>>]
    /\ doc_embeddings = [p \in Procs |-> <<>>]
    /\ off = [p \in Procs |-> 0]
    /\ embedCalls = [p \in Procs |-> 0]
    /\ embedArg = [p \in Procs |-> <<>>]
    /\ modified = [p \in Procs |-> 0]
    /\ decodeTried = [p \in Procs |-> FALSE]
    /\ lastWriter = 0
    /\ interleaved = FALSE

\* texts of a and space, and texts that also have a tab, a vertical tab, a
\* file separator, NEL, a no-break space, an em space, an ideographic space
FilterTexts == SeqsUpTo({97, 32}, FilterMaxLen)
WideTexts == SeqsUpTo({97, 32, 9, 11, 28, 133, 160, 8195, 12288}, FilterMaxLen)
FilterDocs == {Document(t, m) : t \in FilterTexts, m \in Metas}

InitFilter ==
    /\ PipeIdle
    /\ in_docs \in SeqsUpTo(FilterDocs, MaxDocs)
                    \cup {<<Document(t, "m1")>> : t \in WideTexts}
    /\ in_docs0 = in_docs
    /\ min_length \in 0..MaxMinLength
    /\ chunk_size = DefaultChunkSize
    /\ chunk_overlap = DefaultChunkOverlap
    /\ separators = <<>>
    /\ chunked_docs = <<>>
    /\ filtered = <<>>
    /\ step = "called"

\* lines 49-58: a call filter_documents(in_docs, min_length) returns
FilterDocuments ==
    /\ step = "called"
    /\ filtered' = filter_documents(in_docs, min_length)
    /\ step' = "filtered"
    /\ UNCHANGED <<in_docs, in_docs0, chunk_size, chunk_overlap, separators,
                   min_length, chunked_docs>>
    /\ UNCHANGED pipeVars

NextFilter == FilterDocuments

SpecFilter == InitFilter /\ [][NextFilter]_vars

\* the inputs of preprocess_and_chunk: one document with any text, or several
\* documents with one of a few texts
\* texts of a, b, space and line feed, and texts of a, b and vertical tab
ChunkTexts == SeqsUpTo({97, 98, 32, 10}, ChunkMaxLen) \cup SeqsUpTo({97, 98, 11}, ChunkMaxLen)
FewTexts == {<<>>, <<97, 98>>, <<98, 32, 97>>}
ChunkInputs ==
    {<<Document(t, "m1")>> : t \in ChunkTexts}
        \cup SeqsUpTo({Document(t, m) : t \in FewTexts, m \in Metas}, MaxDocs)

InitChunk ==
    /\ PipeIdle
    /\ in_docs \in ChunkInputs
    /\ in_docs0 = in_docs
    /\ chunk_size \in 1..MaxChunkSize
    /\ chunk_overlap \in 0..(chunk_size - 1)
    /\ separators \in {DefaultSeparators, << <<>> >>}
    /\ min_length = DefaultMinLength
    /\ chunked_docs = <<>>
    /\ filtered = <<>>
    /\ step = "called"

\* lines 22-47: a call preprocess_and_chunk(in_docs, chunk_size, chunk_overlap,
\* separators) returns
PreprocessAndChunk ==
    /\ step = "called"
    /\ chunked_docs' = preprocess_and_chunk(in_docs, chunk_size, chunk_overlap, separators)
    /\ step' = "chunked"
    /\ UNCHANGED <<in_docs, in_docs0, chunk_size, chunk_overlap, separators,
                   min_length, filtered>>
    /\ UNCHANGED pipeVars

NextChunk == PreprocessAndChunk

SpecChunk == InitChunk /\ [][NextChunk]_vars

----------------------------------------------------------------------------
(* Properties of one run *)

\* the values of section k of a pickled record
SectionOf(data, k, next) ==
    LET a == FirstIndex(data, Key(k))
        z == FirstIndex(data, next)
    IN  [i \in 1..(z - a - 1) |-> data[a + i][2]]

LoadRecord(data) ==
    [docs |-> SectionOf(data, "docs", Key("metadatas")),
     metadatas |-> SectionOf(data, "metadatas", Key("embeddings")),
     embeddings |-> SectionOf(data, "embeddings", STOP)]

Finished(p) == pc[p] = "done"
Decoded == Unpickle(chunksFile.data)

\* the four input validations of the run: exists, non-empty, decodes, has chunks
InputValid ==
    /\ chunksFile.exists
    /\ GetSize(chunksFile) > 0
    /\ Decoded.kind = "ok"
    /\ Decoded.value # <<>>

\* embed_documents has returned a list whose length is not that of the texts
Mismatch(p) ==
    /\ embedCalls[p] = 1
    /\ pc[p] # "embed"
    /\ outcome[p] # "embed_error"
    /\ Len(doc_embeddings[p]) # Len(docs[p])

\* C1: a run that fails a validation (blob missing, empty, undecodable, no
\* chunks, or a vector list of another length than the text list) never
\* writes to the output path, and the blob there stays as it was.
C1_WriteOnlyAfterAllValidations ==
    (~InputValid \/ Mismatch(1)) => (modified[1] = 0 /\ outFile = outFile0)

\* C2: the checks run in the order existence, emptiness, decode; an absent
\* blob is diagnosed as missing and only an absent one, a present blob of
\* length zero as empty and only such a one, and pickle.load is entered only
\* on a blob that exists and has non-zero length.
C2_LoadChecksOrdered ==
    /\ decodeTried[1] => (chunksFile.exists /\ GetSize(chunksFile) > 0)
    /\ (Finished(1) /\ outcome[1] # "model_error") =>
          /\ (outcome[1] = "missing") <=> ~chunksFile.exists
          /\ (outcome[1] = "empty") <=> (chunksFile.exists /\ GetSize(chunksFile) = 0)
          /\ (outcome[1] \in {"missing", "empty"}) => ~decodeTried[1]

C2_Witness ==
    /\ Finished(1)
    /\ outcome[1] = "empty"
    /\ chunksFile.exists

\* C3: a vector list of another length than the text list is rejected: no
\* record is assembled from it, the run does not end as saved and nothing is
\* written to the output path.
C3_MismatchRejected ==
    Mismatch(1) =>
        /\ embedding_data[1] = EmptyRecord
        /\ outcome[1] # "saved"
        /\ modified[1] = 0

\* C4: when the chunk list is non-empty and one vector per text came back, the
\* persisted record has as many docs, metadatas and embeddings as there are
\* chunks, and at every index the text and the metadata of that chunk and the
\* vector returned at that index.
C4_RecordAligned ==
    (outcome[1] = "saved" /\ InputValid
        /\ Len(doc_embeddings[1]) = Len(Decoded.value)) =>
        LET rec == LoadRecord(outFile.data)
            cs == Decoded.value
        IN  /\ Len(rec.docs) = Len(cs)
            /\ Len(rec.metadatas) = Len(cs)
            /\ Len(rec.embeddings) = Len(cs)
            /\ \A i \in 1..Len(cs) :
                 /\ rec.docs[i] = cs[i].page_content
                 /\ rec.metadatas[i] = cs[i].metadata
                 /\ rec.embeddings[i] = doc_embeddings[1][i]

C4_Witness ==
    /\ outcome[1] = "saved"
    /\ Len(Decoded.value) = 2
    /\ Len(doc_embeddings[1]) = 2
    /\ Decoded.value[1] = Chunk("t1", "m1")
    /\ Decoded.value[2] = Chunk("t2", "m2")
    /\ doc_embeddings[1] = <<"v2", "v1">>

\* C5: embed_documents is called at most once; once, with all chunk texts in
\* chunk order, in a finished run whose input validations passed; never when
\* one of them fails.
C5_EmbedOnce ==
    /\ embedCalls[1] <= 1
    /\ ~InputValid => embedCalls[1] = 0
    /\ (Finished(1) /\ InputValid /\ outcome[1] # "model_error") =>
          /\ embedCalls[1] = 1
          /\ embedArg[1] = [i \in 1..Len(Decoded.value) |-> Decoded.value[i].page_content]

C5_Witness ==
    /\ Finished(1)
    /\ embedCalls[1] = 1
    /\ embedArg[1] = <<"t2", "t1">>

\* C7: a blob that exists, is non-empty and does not decode ends the run with
\* the corrupt-input diagnosis whatever the decode failure is, without an
\* embedding call and without a write of the output blob.
C7_UndecodableIsCorrupt ==
    (Finished(1) /\ outcome[1] # "model_error" /\ chunksFile.exists
        /\ GetSize(chunksFile) > 0 /\ Decoded.kind # "ok") =>
        /\ outcome[1] = "corrupt"
        /\ embedCalls[1] = 0
        /\ modified[1] = 0

----------------------------------------------------------------------------
(* Properties of two racing runs *)

AllDone == \A p \in Procs : Finished(p)

\* C8 as stated: after both runs the blob is the whole record of the run that
\* wrote last.
C8_LastWriterWins ==
    AllDone => outFile = File(DumpRecord(embedding_data[lastWriter]))

\* C8 amended: that holds when the runs' accesses to the output file did not
\* interleave.
C8_LastWriterWinsSequential ==
    (AllDone /\ ~interleaved) =>
        outFile = File(DumpRecord(embedding_data[lastWriter]))

C8_Witness ==
    /\ AllDone
    /\ ~interleaved
    /\ \E p \in Procs :
         /\ p # lastWriter
         /\ Len(embedding_data[lastWriter].docs) < Len(embedding_data[p].docs)
    /\ outFile0.exists

----------------------------------------------------------------------------
(* Properties of preprocessing.py *)

\* the length of t between its first and its last non-whitespace character
TrimmedLen(t) ==
    LET solid == {i \in 1..Len(t) : ~IsSpace(t[i])}
    IN  IF solid = {} THEN 0
        ELSE (CHOOSE i \in solid : \A j \in solid : j <= i)
                 - (CHOOSE i \in solid : \A j \in solid : i <= j) + 1

\* C6: filter_documents returns the documents whose trimmed text has at least
\* min_length characters, each as it was passed, in input order, and drops the
\* others; the documents passed stay as they were.
C6_FilterIsSubsequence ==
    step = "filtered" =>
        LET keep == {i \in 1..Len(in_docs0) :
                        TrimmedLen(in_docs0[i].page_content) >= min_length}
        IN  /\ Len(filtered) = Cardinality(keep)
            /\ \A i \in keep :
                 filtered[Cardinality({j \in keep : j <= i})] = in_docs0[i]
            /\ in_docs = in_docs0

C6_Witness ==
    /\ step = "filtered"
    /\ Len(in_docs) = 2
    /\ filtered = <<in_docs[2]>>
    /\ min_length = 1
    /\ in_docs[2].page_content = <<32, 97>>
    /\ in_docs[1].page_content = <<32, 32>>

\* whether chunk i starts with the last chunk_overlap characters of chunk i - 1
SharesOverlap(i) ==
    LET prev == chunked_docs[i - 1].page_content
        cur == chunked_docs[i].page_content
        k == chunk_overlap
    IN  /\ Len(prev) >= k
        /\ Len(cur) >= k
        /\ SubSeq(cur, 1, k) = SubSeq(prev, Len(prev) - k + 1, Len(prev))

\* C9 as stated: every chunk of a text but the first starts with the last
\* chunk_overlap characters of the chunk before it.
C9_EveryChunkSharesOverlap ==
    (step = "chunked" /\ Len(in_docs) = 1) =>
        \A i \in 2..Len(chunked_docs) : SharesOverlap(i)

\* C9 amended: that holds for a text without whitespace characters.
C9_OverlapWithoutWhitespace ==
    (step = "chunked" /\ Len(in_docs) = 1
        /\ \A i \in 1..Len(in_docs[1].page_content) : ~IsSpace(in_docs[1].page_content[i])) =>
        \A i \in 2..Len(chunked_docs) : SharesOverlap(i)

C9_Witness ==
    /\ step = "chunked"
    /\ in_docs = <<Document(<<97, 98, 98, 97, 98>>, "m1")>>
    /\ chunk_size = 3
    /\ chunk_overlap = 2
    /\ Len(chunked_docs) = 3

\* the splits of document d and the number of chunks before its first
SplitsOf(d) == SplitText(in_docs0[d].page_content, separators, chunk_size, chunk_overlap)
RECURSIVE ChunksBefore(_)
ChunksBefore(d) == IF d = 1 THEN 0 ELSE ChunksBefore(d - 1) + Len(SplitsOf(d - 1))

\* C10: preprocess_and_chunk returns, document after document, one chunk per
\* split of the document's text in split order, each with the metadata of
\* that document; a document with empty text gives no chunk; the documents
\* passed stay as they were.
C10_ChunksFollowDocuments ==
    step = "chunked" =>
        /\ Len(chunked_docs) = ChunksBefore(Len(in_docs0) + 1)
        /\ \A d \in 1..Len(in_docs0) :
             /\ \A j \in 1..Len(SplitsOf(d)) :
                  /\ chunked_docs[ChunksBefore(d) + j].page_content = SplitsOf(d)[j]
                  /\ chunked_docs[ChunksBefore(d) + j].metadata = in_docs0[d].metadata
             /\ in_docs0[d].page_content = <<>> => Len(SplitsOf(d)) = 0
        /\ in_docs = in_docs0

C10_Witness ==
    /\ step = "chunked"
    /\ Len(in_docs) = 2
    /\ in_docs[1] = Document(<<98, 32, 97>>, "m2")
    /\ in_docs[2] = Document(<<97, 98>>, "m1")
    /\ chunk_size = 2
    /\ Len(chunked_docs) = 3
    /\ chunked_docs[2].metadata = "m2"
    /\ chunked_docs[3] = Document(<<97, 98>>, "m1")

====
